---- MODULE Spec2Model ----
(***************************************************************************)
(* A model of GvGen (src/gvgen.py): the node / link / style data model,    *)
(* the smart-link coalescing of __link_smart, the property operations and  *)
(* the dot serializer.                                                     *)
(*                                                                         *)
(* Encoding.  A Python object reference to a node is the node's position   *)
(* in self.__nodes (nodes are never removed), 0 standing for None; the     *)
(* node's 'id' entry is a field of its own.  A stored link is referred to  *)
(* by its position in self.__links.  A properties dict is a function from  *)
(* its keys to its values.  A style is a sequence of <<key, value>> pairs. *)
(* A missing style (None) is the empty string, which Python tests falsy as *)
(* it does None.  Pen widths and arrow sizes are kept by the program as    *)
(* decimal texts ("1.2"); float() and str() are modelled by Float and Str  *)
(* over fixed-point tenths.                                                *)
(***************************************************************************)
EXTENDS Integers, Sequences, FiniteSets, TLC

VARIABLES id, nodes, links, styles, default_style, smart_mode, call, run

vars == <<id, nodes, links, styles, default_style, smart_mode, call, run>>

----------------------------------------------------------------------------
(* Bounds of the model. *)

\* The size (nodes, links, style pairs, applied styles, added properties) of the
\* graphs a caller builds: with any operation, with styles, with clusters.
MaxSize == 3
StyleSize == 5
ClusterSize == 5
\* Nodes of the caller that links in smart mode, and pairs of nodes it links.
SmartNodes == 2
SmartPairs == 1
\* The run counter saturates here (RunCap stands for "RunCap or more").
RunCap == 10

----------------------------------------------------------------------------
(* Program constants, GvGen.__init__; widths are in tenths. *)

max_line_width == 100
max_arrow_width == 20
line_factor == 10
arrow_factor == 5
initial_line_width == 12
initial_arrow_width == 8

\* The largest number of tenths Float reads back.
MaxTenths == 200

----------------------------------------------------------------------------
(* Python values. *)

\* None as a node reference.
NoNode == 0
\* None as a style name.
NoStyle == ""
\* The empty dict.
EmptyProps == [k \in {} |-> ""]
\* The return value -1 of __node_new for a duplicate label.
DUPLICATE == -1

Min(S) == CHOOSE x \in S : \A y \in S : x <= y

\* str(f) of a float with one decimal, f given in tenths.
Str(t) == ToString(t \div 10) \o "." \o ToString(t % 10)

\* The decimal texts float() reads back, by their value in tenths.
DecimalTexts == [t \in 0..MaxTenths |-> Str(t)]

\* float(s), in tenths; -1 stands for the ValueError of a text that is no number.
Float(s) ==
    IF \E t \in 0..MaxTenths : DecimalTexts[t] = s
    THEN CHOOSE t \in 0..MaxTenths : DecimalTexts[t] = s
    ELSE -1

\* props[key] = val on a dict.
DictSet(props, key, val) ==
    [k \in (DOMAIN props) \cup {key} |-> IF k = key THEN val ELSE props[k]]

\* del props[key] on a dict that has the key.
DictDel(props, key) == [k \in (DOMAIN props) \ {key} |-> props[k]]

\* dict.update(pairs) with a list of [key, val] pairs: later pairs win.
RECURSIVE DictUpdatePairs(_, _)
DictUpdatePairs(props, pairs) ==
    IF pairs = <<>> THEN props
    ELSE DictUpdatePairs(DictSet(props, pairs[1][1], pairs[1][2]), Tail(pairs))

\* dict.update(other) with another dict.
DictUpdate(props, other) ==
    [k \in (DOMAIN props) \cup (DOMAIN other) |->
        IF k \in DOMAIN other THEN other[k] ELSE props[k]]

\* list.remove of the element at position i.
RemoveAt(s, i) == [j \in 1..(Len(s) - 1) |-> IF j < i THEN s[j] ELSE s[j + 1]]

----------------------------------------------------------------------------
(* GraphModel *)

\* __node_new, the scan for distinct: "KeyError" when a node scanned before any
\* match has no label, "found" when a label matches, "none" when none does.
RECURSIVE distinct_scan(_, _, _)
distinct_scan(ns, i, name) ==
    IF i > Len(ns) THEN "none"
    ELSE IF "label" \notin DOMAIN ns[i].properties THEN "KeyError"
    ELSE IF ns[i].properties["label"] = name THEN "found"
    ELSE distinct_scan(ns, i + 1, name)

\* The node record __node_new builds.
node_record(newid, name, parent) ==
    [id |-> newid, parent |-> parent, style |-> NoStyle,
     properties |-> [k \in {"label"} |-> name]]

\* __link_exists: the position of the first stored link from_node -> to_node, 0 for None.
link_exists(ls, from_node, to_node) ==
    LET m == {i \in 1..Len(ls) : ls[i].from_node = from_node /\ ls[i].to_node = to_node}
    IN IF m = {} THEN 0 ELSE Min(m)

\* __has_children: the children of parent, in the order of self.__nodes.
has_children(ns, parent) ==
    SelectSeq([i \in 1..Len(ns) |-> i], LAMBDA i : ns[i].parent = parent)

\* propertyGet on an object: <<>> for None, <<value>> otherwise.  obj is <<>> for
\* None (the TypeError of None['properties'] is caught), or <<record>>.
propertyGetObj(obj, key) ==
    IF obj = <<>> THEN <<>>
    ELSE IF key \in DOMAIN obj[1].properties THEN <<obj[1].properties[key]>>
    ELSE <<>>

\* propertyAppend on a record.
propertyAppendObj(obj, key, val) ==
    [obj EXCEPT !.properties = DictSet(obj.properties, key, val)]

\* Python's truth test of a propertyGet result: None and "" are false.
Truthy(r) == r # <<>> /\ r[1] # ""

\* A mutant of penwidth_written: the width read is tested against the arrow maximum.
penwidth_written_arrow_max(pw) == pw < max_arrow_width

\* The pen width test of __link_smart: the incremented width is written when it is
\* below the maximum.
penwidth_written(pw) == pw + line_factor < max_line_width

\* The arrow size test of __link_smart: the size is incremented and written when the
\* size read is below the maximum.
arrowsize_written(aw) == aw < max_arrow_width

\* A mutant of absorbs: the reverse link is never removed.
absorbs_never(smart, linkto) == FALSE

\* Whether the stored reverse link is removed: "if self.smart_mode: if linkto:".
absorbs(smart, linkto) == smart /\ linkto # 0

\* The link record __link_new builds.
link_record(from_node, to_node, label, cl_from_node, cl_to_node) ==
    [from_node |-> from_node, to_node |-> to_node, style |-> NoStyle,
     properties |-> IF label # "" THEN [k \in {"label"} |-> label] ELSE EmptyProps,
     cl_from_node |-> cl_from_node, cl_to_node |-> cl_to_node]

\* __link_smart: the stored links after the call, and whether float() failed.
link_smart(ls, smart, link) ==
    LET linkfrom == link_exists(ls, link.from_node, link.to_node)
        linkto == link_exists(ls, link.to_node, link.from_node)
        fromObj == IF linkfrom = 0 THEN <<>> ELSE <<ls[linkfrom]>>
        removed == absorbs(smart, linkto)
        ls1 == IF removed THEN RemoveAt(ls, linkto) ELSE ls
        link1 == IF removed THEN propertyAppendObj(link, "dir", "both") ELSE link
        \* where the object linkfrom now is in storage; 0 when it is None or has
        \* just been removed (linkto and linkfrom are one object when from = to)
        pos == IF linkfrom = 0 \/ (removed /\ linkto = linkfrom) THEN 0
               ELSE IF removed /\ linkto < linkfrom THEN linkfrom - 1
               ELSE linkfrom
        pw == propertyGetObj(fromObj, "penwidth")
        pwf == IF Truthy(pw) THEN Float(pw[1]) ELSE 0
        aw == propertyGetObj(fromObj, "arrowsize")
        awf == IF Truthy(aw) THEN Float(aw[1]) ELSE 0
        \* lines 120-127
        ls2 == IF smart /\ Truthy(pw) /\ pwf >= 0 /\ penwidth_written(pwf) /\ pos # 0
               THEN [ls1 EXCEPT ![pos] =
                        propertyAppendObj(@, "penwidth", Str(pwf + line_factor))]
               ELSE ls1
        link2 == IF smart /\ ~Truthy(pw)
                 THEN propertyAppendObj(link1, "penwidth", Str(initial_line_width))
                 ELSE link1
        \* lines 129-136
        ls3 == IF smart /\ Truthy(aw) /\ awf >= 0 /\ arrowsize_written(awf) /\ pos # 0
               THEN [ls2 EXCEPT ![pos] =
                        propertyAppendObj(@, "arrowsize", Str(awf + arrow_factor))]
               ELSE ls2
        link3 == IF smart /\ ~Truthy(aw)
                 THEN propertyAppendObj(link2, "arrowsize", Str(initial_arrow_width))
                 ELSE link2
    IN  IF smart /\ Truthy(pw) /\ pwf < 0
        THEN [links |-> ls1, error |-> "ValueError"]
        ELSE IF smart /\ Truthy(aw) /\ awf < 0
        THEN [links |-> ls2, error |-> "ValueError"]
        ELSE [links |-> IF linkfrom = 0 THEN Append(ls3, link3) ELSE ls3,
              error |-> ""]

----------------------------------------------------------------------------
(* The caller's history: the streak of newLink calls on one pair. *)

\* No streak is running.
NoRun == [a |-> 0, b |-> 0, n |-> 0, r |-> 0]

\* Whether some stored link joins a and b, in either direction.
Joined(ls, a, b) == link_exists(ls, a, b) # 0 \/ link_exists(ls, b, a) # 0

Sat(n) == IF n < RunCap THEN n + 1 ELSE RunCap

\* run after newLink(src, dst): n calls newLink(a, b), the first of them made with
\* no link joining a and b, followed by r calls newLink(b, a), all in smart mode and
\* with no other call in between.
run_next(src, dst) ==
    IF ~smart_mode THEN NoRun
    ELSE IF run.n >= 1 /\ run.r = 0 /\ src = run.a /\ dst = run.b
         THEN [run EXCEPT !.n = Sat(run.n)]
    ELSE IF run.n >= 1 /\ src = run.b /\ dst = run.a
         THEN [run EXCEPT !.r = Sat(run.r)]
    ELSE IF ~Joined(links, src, dst)
         THEN [a |-> src, b |-> dst, n |-> 1, r |-> 0]
    ELSE NoRun

----------------------------------------------------------------------------
(* PropertyResolver and DotSerializer *)

\* self.__styles[stylename].
style_registered(stylename) == stylename \in DOMAIN styles

\* The layers a node's dict allProps is built from, in the order of the updates.
node_layers(node) ==
    DictUpdate(
        DictUpdatePairs(
            DictUpdatePairs(EmptyProps, default_style),
            IF node.style # NoStyle THEN styles[node.style] ELSE <<>>),
        node.properties)

\* Whether a leaf's attributes are written: "if props:".
leaf_written(props) == props # EmptyProps

\* propertiesAsStringGet(node, node['properties']): the attributes written, or the
\* KeyError of a style that is not registered.
propertiesAsStringGet(n) ==
    LET node == nodes[n]
    IN  IF node.style # NoStyle /\ ~style_registered(node.style)
        THEN [error |-> "KeyError", attrs |-> EmptyProps]
        ELSE IF has_children(nodes, n) # <<>>
        THEN [error |-> "", attrs |-> node_layers(node)]
        ELSE IF leaf_written(node.properties)
        THEN [error |-> "", attrs |-> node_layers(node)]
        ELSE [error |-> "", attrs |-> EmptyProps]

\* A mutant of link_layers: the default style is applied to links as it is to nodes.
link_layers_with_default(link) ==
    DictUpdate(
        DictUpdatePairs(
            DictUpdatePairs(EmptyProps, default_style),
            IF link.style # NoStyle THEN styles[link.style] ELSE <<>>),
        link.properties)

\* The layers of a link's dict props, in the order of the updates.
link_layers(link) ==
    DictUpdate(
        DictUpdatePairs(EmptyProps,
                        IF link.style # NoStyle THEN styles[link.style] ELSE <<>>),
        link.properties)

\* propertiesLinkAsStringGet(link)
propertiesLinkAsStringGet(link) ==
    IF link.style # NoStyle /\ ~style_registered(link.style)
    THEN [error |-> "KeyError", attrs |-> EmptyProps]
    ELSE [error |-> "", attrs |-> link_layers(link)]

\* trace(node): the statements of a node and of its descendants, in the order
\* written.  A statement whose properties raise is the statement "KeyError".
RECURSIVE trace(_), trace_each(_)
trace(n) ==
    LET p == propertiesAsStringGet(n)
        children == has_children(nodes, n)
    IN  IF children # <<>>
        THEN <<[kind |-> "subgraph", id |-> nodes[n].id, attrs |-> EmptyProps]>>
             \o <<IF p.error # ""
                  THEN [kind |-> "KeyError", id |-> nodes[n].id, attrs |-> EmptyProps]
                  ELSE [kind |-> "attrs", id |-> nodes[n].id, attrs |-> p.attrs]>>
             \o trace_each(children)
             \o <<[kind |-> "end", id |-> nodes[n].id, attrs |-> EmptyProps]>>
        ELSE <<IF p.error # ""
               THEN [kind |-> "KeyError", id |-> nodes[n].id, attrs |-> EmptyProps]
               ELSE [kind |-> "node", id |-> nodes[n].id, attrs |-> p.attrs]>>
trace_each(ns) ==
    IF ns = <<>> THEN <<>> ELSE trace(Head(ns)) \o trace_each(Tail(ns))

\* A mutant of cluster_anchor: the last child is taken.
cluster_anchor_last(children) == children[Len(children)]

\* The child of a cluster an edge is drawn from or to when no override is given.
cluster_anchor(children) == children[1]

\* One endpoint of an edge in dotLinks: the node id written and the cluster id
\* ('' is 0); n is the endpoint, cl the link's override.
endpoint(n, cl) ==
    LET children == has_children(nodes, n)
    IN  IF children # <<>>
        THEN [id |-> IF cl # NoNode THEN nodes[cl].id
                     ELSE nodes[cluster_anchor(children)].id,
              cluster |-> nodes[n].id]
        ELSE [id |-> nodes[n].id, cluster |-> 0]

\* The edge statement dotLinks writes for a stored link; ltail and lhead are <<>>
\* when absent.
edge_statement(l) ==
    LET s == endpoint(l.from_node, l.cl_from_node)
        d == endpoint(l.to_node, l.cl_to_node)
        p == propertiesLinkAsStringGet(l)
    IN  IF p.error # ""
        THEN [kind |-> "KeyError", src |-> s.id, dst |-> d.id, attrs |-> EmptyProps,
              ltail |-> <<>>, lhead |-> <<>>]
        ELSE [kind |-> "edge", src |-> s.id, dst |-> d.id, attrs |-> p.attrs,
              ltail |-> IF s.cluster # 0 THEN <<s.cluster>> ELSE <<>>,
              lhead |-> IF d.cluster # 0 THEN <<d.cluster>> ELSE <<>>]

\* dotLinks(node): the stored links from node, in the order of self.__links.
dotLinks(n) ==
    LET from == SelectSeq(links, LAMBDA l : l.from_node = n)
    IN  [i \in 1..Len(from) |-> edge_statement(from[i])]

RECURSIVE dotLinks_each(_)
dotLinks_each(ns) ==
    IF ns = <<>> THEN <<>> ELSE dotLinks(Head(ns)) \o dotLinks_each(Tail(ns))

\* The statements before the first one that raises.
RECURSIVE Written(_)
Written(stmts) ==
    IF stmts = <<>> \/ Head(stmts).kind = "KeyError" THEN <<>>
    ELSE <<Head(stmts)>> \o Written(Tail(stmts))

Raises(stmts) == \E i \in 1..Len(stmts) : stmts[i].kind = "KeyError"

\* dot(): the node statements and the edge statements written, and the error raised.
dot_output ==
    LET all == [i \in 1..Len(nodes) |-> i]
        roots == SelectSeq(all, LAMBDA i : nodes[i].parent = NoNode)
        stmts == trace_each(roots)
        edges == dotLinks_each(all)
    IN  IF Raises(stmts)
        THEN [error |-> "KeyError", stmts |-> Written(stmts), edges |-> <<>>]
        ELSE [error |-> IF Raises(edges) THEN "KeyError" ELSE "",
              stmts |-> stmts, edges |-> Written(edges)]

----------------------------------------------------------------------------
(* Operations.  A target is <<"node", position in self.__nodes>> or             *)
(* <<"link", position in self.__links>>.                                       *)

IsNode(target) == target[1] = "node"

\* The record a target refers to.
Entity(target) == IF IsNode(target) THEN nodes[target[2]] ELSE links[target[2]]

\* GvGen.__init__ with no legend.
Init ==
    /\ id = 0
    /\ nodes = <<>>
    /\ links = <<>>
    /\ styles = [s \in {} |-> <<>>]
    /\ default_style = <<>>
    /\ smart_mode = FALSE
    /\ call = [op |-> "init"]
    /\ run = NoRun

\* graph.smart_mode = 1
SetSmartMode ==
    /\ ~smart_mode
    /\ smart_mode' = TRUE
    /\ call' = [op |-> "smart_mode"]
    /\ run' = NoRun
    /\ UNCHANGED <<id, nodes, links, styles, default_style>>

\* A mutant of next_id: the counter is not incremented.
next_id_stale == id

\* The id __node_new gives the next node.
next_id == id + 1

\* newItem(name, parent, distinct)
newItem(name, parent, distinct) ==
    /\ LET scan == IF distinct THEN distinct_scan(nodes, 1, name) ELSE "none"
       IN  CASE scan = "KeyError" ->
                  /\ call' = [op |-> "newItem", name |-> name, parent |-> parent,
                              distinct |-> distinct, error |-> "KeyError",
                              result |-> NoNode]
                  /\ UNCHANGED <<id, nodes>>
             [] scan = "found" ->
                  /\ call' = [op |-> "newItem", name |-> name, parent |-> parent,
                              distinct |-> distinct, error |-> "",
                              result |-> DUPLICATE]
                  /\ UNCHANGED <<id, nodes>>
             [] OTHER ->
                  /\ id' = next_id
                  /\ nodes' = Append(nodes, node_record(next_id, name, parent))
                  /\ call' = [op |-> "newItem", name |-> name, parent |-> parent,
                              distinct |-> distinct, error |-> "",
                              result |-> Len(nodes) + 1]
    /\ run' = NoRun
    /\ UNCHANGED <<links, styles, default_style, smart_mode>>

\* newLink(src, dst, label, cl_src, cl_dst); label "" and cl 0 stand for None.
newLink(src, dst, label, cl_src, cl_dst) ==
    LET r == link_smart(links, smart_mode, link_record(src, dst, label, cl_src, cl_dst))
    IN  /\ links' = r.links
        /\ call' = [op |-> "newLink", src |-> src, dst |-> dst, error |-> r.error]
        /\ run' = run_next(src, dst)
        /\ UNCHANGED <<id, nodes, styles, default_style, smart_mode>>

\* styleAppend(stylename, key, val)
styleAppend(stylename, key, val) ==
    /\ styles' = [s \in (DOMAIN styles) \cup {stylename} |->
                    IF s = stylename
                    THEN Append(IF s \in DOMAIN styles THEN styles[s] ELSE <<>>,
                                <<key, val>>)
                    ELSE styles[s]]
    /\ call' = [op |-> "styleAppend"]
    /\ run' = NoRun
    /\ UNCHANGED <<id, nodes, links, default_style, smart_mode>>

\* styleDefaultAppend(key, val)
styleDefaultAppend(key, val) ==
    /\ default_style' = Append(default_style, <<key, val>>)
    /\ call' = [op |-> "styleDefaultAppend"]
    /\ run' = NoRun
    /\ UNCHANGED <<id, nodes, links, styles, smart_mode>>

\* The stored records with the record of target replaced by rec.
Store(target, rec) ==
    /\ nodes' = IF IsNode(target) THEN [nodes EXCEPT ![target[2]] = rec] ELSE nodes
    /\ links' = IF IsNode(target) THEN links ELSE [links EXCEPT ![target[2]] = rec]

\* styleApply(stylename, node_or_link)
styleApply(stylename, target) ==
    /\ Store(target, [Entity(target) EXCEPT !.style = stylename])
    /\ call' = [op |-> "styleApply"]
    /\ run' = NoRun
    /\ UNCHANGED <<id, styles, default_style, smart_mode>>

\* propertyAppend(node_or_link, key, val)
propertyAppend(target, key, val) ==
    /\ Store(target, propertyAppendObj(Entity(target), key, val))
    /\ call' = [op |-> "propertyAppend", target |-> target, key |-> key]
    /\ run' = NoRun
    /\ UNCHANGED <<id, styles, default_style, smart_mode>>

\* propertyForeachLinksAppend(node, key, val)
propertyForeachLinksAppend(n, key, val) ==
    /\ links' = [i \in 1..Len(links) |->
                    IF links[i].from_node = n
                    THEN propertyAppendObj(links[i], key, val)
                    ELSE links[i]]
    /\ call' = [op |-> "propertyForeachLinksAppend"]
    /\ run' = NoRun
    /\ UNCHANGED <<id, nodes, styles, default_style, smart_mode>>

\* propertyGet(node_or_link, key): the value in <<>>, or <<>> for None.
propertyGet(target, key) ==
    /\ call' = [op |-> "propertyGet", target |-> target, key |-> key,
                error |-> "", result |-> propertyGetObj(<<Entity(target)>>, key)]
    /\ run' = NoRun
    /\ UNCHANGED <<id, nodes, links, styles, default_style, smart_mode>>

\* A mutant of del_finds: a missing key is silently ignored.
del_finds_always(props, key) == TRUE

\* Whether "del props[key]" finds the key.
del_finds(props, key) == key \in DOMAIN props

\* propertyRemove(node_or_link, key)
propertyRemove(target, key) ==
    /\ IF del_finds(Entity(target).properties, key)
       THEN /\ Store(target, [Entity(target) EXCEPT
                                 !.properties = DictDel(@, key)])
            /\ call' = [op |-> "propertyRemove", target |-> target, key |-> key,
                        error |-> ""]
               ELSE /\ call' = [op |-> "propertyRemove", target |-> target, key |-> key,
                        error |-> "KeyError"]
            /\ UNCHANGED <<nodes, links>>
    /\ run' = NoRun
    /\ UNCHANGED <<id, styles, default_style, smart_mode>>

\* dot()
dot ==
    /\ call' = [op |-> "dot", out |-> dot_output]
    /\ run' = NoRun
    /\ UNCHANGED <<id, nodes, links, styles, default_style, smart_mode>>

----------------------------------------------------------------------------
(* Callers *)

NodeRefs == 1..Len(nodes)
NodeTargets == {<<"node", i>> : i \in NodeRefs}
LinkTargets == {<<"link", i>> : i \in 1..Len(links)}
Targets == NodeTargets \cup LinkTargets

\* The pairs of nodes that some stored link joins.
LinkedPairs(ls) == {{ls[i].from_node, ls[i].to_node} : i \in 1..Len(ls)}

RECURSIVE SumLen(_, _)
SumLen(f, S) ==
    IF S = {} THEN 0
    ELSE LET x == CHOOSE y \in S : TRUE IN Len(f[x]) + SumLen(f, S \ {x})

\* What a record adds to the size: itself, the properties added to it, its style.
Weight(rec, created) ==
    1 + Cardinality((DOMAIN rec.properties) \ created)
      + IF rec.style # NoStyle THEN 1 ELSE 0

\* What a link's overrides add to the size.
OverrideWeight(link) ==
    (IF link.cl_from_node # NoNode THEN 1 ELSE 0)
    + (IF link.cl_to_node # NoNode THEN 1 ELSE 0)

RECURSIVE NodesWeight(_)
NodesWeight(ns) ==
    IF ns = <<>> THEN 0 ELSE Weight(Head(ns), {"label"}) + NodesWeight(Tail(ns))

RECURSIVE LinksWeight(_)
LinksWeight(ls) ==
    IF ls = <<>> THEN 0
    ELSE Weight(Head(ls), {}) + OverrideWeight(Head(ls)) + LinksWeight(Tail(ls))

\* The size of the graph built: its nodes and links, the properties added to them
\* (a node's label comes with the node), the overrides and styles set on them, the
\* pairs of the styles.
Size(ns, ls, st, ds) ==
    NodesWeight(ns) + LinksWeight(ls) + SumLen(st, DOMAIN st) + Len(ds)

Size0 == Size(nodes, links, styles, default_style)
Size1 == Size(nodes', links', styles', default_style')

Names == {"X", "Y"}
Keys == {"label", "color"}

\* A caller of every operation, smart mode left off.
Next ==
    \/ /\ Size0 < MaxSize
       /\ \E name \in Names, parent \in {NoNode} \cup NodeRefs, distinct \in BOOLEAN :
              newItem(name, parent, distinct)
       /\ Size1 <= MaxSize
    \/ /\ Size0 < MaxSize
       /\ \E src \in NodeRefs, dst \in NodeRefs :
              newLink(src, dst, "", NoNode, NoNode)
       /\ Size1 <= MaxSize
    \/ /\ Size0 < MaxSize
       /\ styleAppend("s", "color", "blue")
       /\ Size1 <= MaxSize
    \/ /\ Size0 < MaxSize
       /\ styleDefaultAppend("color", "blue")
       /\ Size1 <= MaxSize
    \/ /\ Size0 < MaxSize
       /\ \E t \in Targets : styleApply("s", t)
       /\ Size1 <= MaxSize
    \/ /\ Size0 < MaxSize
       /\ \E t \in Targets, kv \in {<<"color", "red">>, <<"label", "Y">>} :
              propertyAppend(t, kv[1], kv[2])
       /\ Size1 <= MaxSize
    \/ /\ Size0 < MaxSize
       /\ \E n \in NodeRefs : propertyForeachLinksAppend(n, "color", "red")
       /\ Size1 <= MaxSize
    \/ \E t \in Targets, key \in Keys : propertyGet(t, key)
    \/ \E t \in Targets, key \in Keys : propertyRemove(t, key)
    \/ dot

Spec == Init /\ [][Next]_vars

\* A caller that styles nodes and links and writes the graph.
NextStyle ==
    \/ /\ Size0 < StyleSize
       /\ \E parent \in {NoNode} \cup (NodeRefs \cap {1}) : newItem("X", parent, FALSE)
       /\ Size1 <= StyleSize
    \/ /\ Size0 < StyleSize
       /\ \E src \in NodeRefs, dst \in NodeRefs :
              newLink(src, dst, "", NoNode, NoNode)
       /\ Size1 <= StyleSize
    \/ /\ Size0 < StyleSize
       /\ \E kv \in {<<"color", "red">>, <<"shape", "box">>} :
              styleAppend("s", kv[1], kv[2])
       /\ Size1 <= StyleSize
    \/ /\ Size0 < StyleSize
       /\ styleDefaultAppend("color", "blue")
       /\ Size1 <= StyleSize
    \/ /\ Size0 < StyleSize
       /\ \E t \in Targets : styleApply("s", t)
       /\ Size1 <= StyleSize
    \/ /\ Size0 < StyleSize
       /\ \E t \in Targets : propertyAppend(t, "color", "green")
       /\ Size1 <= StyleSize
    \/ \E t \in NodeTargets : propertyRemove(t, "label")
    \/ dot

SpecStyle == Init /\ [][NextStyle]_vars

\* A caller that nests nodes in clusters, links them and writes the graph.
NextCluster ==
    \/ /\ Size0 < ClusterSize
       /\ \E parent \in {NoNode} \cup NodeRefs :
              newItem("X", parent, FALSE)
       /\ Size1 <= ClusterSize
    \/ /\ Size0 < ClusterSize
       /\ \E src \in NodeRefs, dst \in NodeRefs,
              cl_src \in {NoNode} \cup NodeRefs, cl_dst \in {NoNode} \cup NodeRefs :
              newLink(src, dst, "", cl_src, cl_dst)
       /\ Size1 <= ClusterSize
    \/ dot

SpecCluster == Init /\ [][NextCluster]_vars

\* A caller that enables smart mode and links plain root nodes.
NextSmart ==
    \/ SetSmartMode
    \/ Len(nodes) < SmartNodes /\ newItem("n", NoNode, FALSE)
    \/ \E src \in NodeRefs, dst \in NodeRefs :
          newLink(src, dst, "", NoNode, NoNode) /\ Cardinality(LinkedPairs(links')) <= SmartPairs

SpecSmart == Init /\ [][NextSmart]_vars

\* The caller of __main__, which sets smart_mode before it requests any link.
NextCoalesce ==
    \/ SetSmartMode
    \/ Len(nodes) < SmartNodes /\ newItem("n", NoNode, FALSE)
    \/ /\ smart_mode
       /\ \E src \in NodeRefs, dst \in NodeRefs :
             newLink(src, dst, "", NoNode, NoNode) /\ Cardinality(LinkedPairs(links')) <= SmartPairs

SpecCoalesce == Init /\ [][NextCoalesce]_vars

----------------------------------------------------------------------------
(* Smart links: C1, C2, C10 (under SpecSmart) *)

\* The stored links that join a and b, in either direction.
Between(a, b) ==
    {i \in 1..Len(links) :
        \/ links[i].from_node = a /\ links[i].to_node = b
        \/ links[i].from_node = b /\ links[i].to_node = a}

\* Link i goes from a to b and carries properties[key] = val.
GoesWith(i, a, b, key, val) ==
    /\ links[i].from_node = a
    /\ links[i].to_node = b
    /\ key \in DOMAIN links[i].properties
    /\ links[i].properties[key] = val

\* In smart mode, with no link between distinct a and b, newLink(a, b) was called
\* once and then newLink(b, a) once.
ReversalCase == smart_mode /\ run.n = 1 /\ run.r = 1 /\ run.a # run.b

\* C1 as stated: after newLink(A, B) then newLink(B, A) in smart mode, exactly one
\* link is stored, it goes from A to B with dir = "both", and no link B -> A is stored.
C1_AsStated ==
    ReversalCase =>
        /\ Cardinality(Between(run.a, run.b)) = 1
        /\ \A i \in Between(run.a, run.b) : GoesWith(i, run.a, run.b, "dir", "both")
        /\ link_exists(links, run.b, run.a) = 0

\* C1 amended: after newLink(A, B) then newLink(B, A) in smart mode, exactly one
\* link is stored, it is the new link from B to A with dir = "both", and the link
\* A -> B is no longer stored.
C1_Reversal ==
    ReversalCase =>
        /\ Cardinality(Between(run.a, run.b)) = 1
        /\ \A i \in Between(run.a, run.b) : GoesWith(i, run.b, run.a, "dir", "both")
        /\ link_exists(links, run.a, run.b) = 0

C1_Witness ==
    /\ ReversalCase
    /\ call.op = "newLink" /\ call.src = run.b /\ call.dst = run.a
    /\ link_exists(links, run.b, run.a) # 0

\* In smart mode, with no link between distinct a and b, newLink(a, b) was called
\* run.n times and nothing else (the count is exact below RunCap).
RepetitionCase == smart_mode /\ run.n >= 1 /\ run.n < RunCap /\ run.r = 0 /\ run.a # run.b

\* The pen width after n calls, in tenths.
WidthAfter(n) == initial_line_width + (n - 1) * line_factor

\* C2: n calls newLink(A, B) in smart mode leave exactly one stored link between A
\* and B, from A to B, and its penwidth is 1.2 + (n - 1) whenever that is below 10.
C2_Repetition ==
    RepetitionCase =>
        /\ Cardinality(Between(run.a, run.b)) = 1
        /\ \A i \in Between(run.a, run.b) :
              /\ links[i].from_node = run.a /\ links[i].to_node = run.b
              /\ WidthAfter(run.n) < max_line_width =>
                    GoesWith(i, run.a, run.b, "penwidth", Str(WidthAfter(run.n)))

C2_Witness ==
    /\ RepetitionCase
    /\ run.n = 3
    /\ \E i \in Between(run.a, run.b) : GoesWith(i, run.a, run.b, "penwidth", "3.2")

\* C10 as stated: with links made by newLink alone, the arrowsize of every stored
\* link stays below the cap 2.
C10_AsStated ==
    \A i \in 1..Len(links) :
        "arrowsize" \in DOMAIN links[i].properties =>
            Float(links[i].properties["arrowsize"]) < max_arrow_width

----------------------------------------------------------------------------
(* Nodes and properties: C5, C6, C8, C9 (under Spec) *)

\* C5 as stated: every node's properties contain a label key.
C5_AsStated == \A i \in NodeRefs : "label" \in DOMAIN nodes[i].properties

\* Some node of ns has properties.label = name.
LabelTaken(ns, name) ==
    \E i \in 1..Len(ns) :
        "label" \in DOMAIN ns[i].properties /\ ns[i].properties["label"] = name

\* C6 as stated: newItem(label, parent, distinct=true) returns DUPLICATE, with no
\* error, exactly when some node has properties.label = label, and then leaves the
\* nodes and the id counter unchanged; otherwise it creates and returns a new node.
C6_AsStated ==
    [][(call'.op = "newItem" /\ call'.distinct) =>
          /\ call'.error = ""
          /\ (call'.result = DUPLICATE) <=> LabelTaken(nodes, call'.name)
          /\ LabelTaken(nodes, call'.name) => (nodes' = nodes /\ id' = id)
          /\ ~LabelTaken(nodes, call'.name) =>
                /\ Len(nodes') = Len(nodes) + 1
                /\ call'.result = Len(nodes')
                /\ nodes'[Len(nodes')].properties["label"] = call'.name]_vars

\* The record a target refers to, in the given storage.
EntityIn(ns, ls, target) == IF IsNode(target) THEN ns[target[2]] ELSE ls[target[2]]

\* Every stored record but the target's is unchanged, and so is the rest of the graph.
OthersUnchanged(target) ==
    /\ Len(nodes') = Len(nodes) /\ Len(links') = Len(links)
    /\ \A t \in Targets : t # target => EntityIn(nodes', links', t) = Entity(t)
    /\ UNCHANGED <<id, styles, default_style, smart_mode>>

\* C8: for a key absent from the explicit properties, propertyGet returns None
\* without failing, whatever the styles define, and propertyRemove fails with
\* KeyError and changes nothing; for a key that is present, propertyRemove removes
\* that key alone and leaves every other key and every other entity unchanged.
C8_GetRemove ==
    [][/\ (call'.op = "propertyGet"
           /\ call'.key \notin DOMAIN Entity(call'.target).properties) =>
              /\ call'.error = "" /\ call'.result = <<>>
              /\ UNCHANGED <<id, nodes, links, styles, default_style, smart_mode>>
       /\ (call'.op = "propertyRemove"
           /\ call'.key \notin DOMAIN Entity(call'.target).properties) =>
              /\ call'.error = "KeyError"
              /\ UNCHANGED <<id, nodes, links, styles, default_style, smart_mode>>
       /\ (call'.op = "propertyRemove"
           /\ call'.key \in DOMAIN Entity(call'.target).properties) =>
              LET before == Entity(call'.target)
                  after == EntityIn(nodes', links', call'.target)
              IN  /\ call'.error = ""
                  /\ DOMAIN after.properties = (DOMAIN before.properties) \ {call'.key}
                  /\ \A k \in DOMAIN after.properties :
                        after.properties[k] = before.properties[k]
                  /\ after = [before EXCEPT !.properties = after.properties]
                  /\ OthersUnchanged(call'.target)]_vars

\* The pairs of a list of pairs define key.
Defines(pairs, key) == \E i \in 1..Len(pairs) : pairs[i][1] = key

\* propertyGet has returned None for a key that the entity's registered style defines.
C8_Witness ==
    /\ call.op = "propertyGet" /\ call.result = <<>>
    /\ Entity(call.target).style # NoStyle
    /\ style_registered(Entity(call.target).style)
    /\ Defines(styles[Entity(call.target).style], call.key)

\* C9: the ids of the nodes are pairwise distinct and strictly increasing in
\* creation order, and no operation changes the id of a node.
C9_Identity ==
    [][/\ \A i \in 1..Len(nodes) : i <= Len(nodes') /\ nodes'[i].id = nodes[i].id
       /\ \A i \in 1..Len(nodes'), j \in 1..Len(nodes') :
             i < j => nodes'[i].id < nodes'[j].id]_vars

\* At least two nodes exist and the last newItem call returned DUPLICATE.
C9_Witness ==
    /\ Len(nodes) >= 2
    /\ call.op = "newItem" /\ call.error = "" /\ call.result = DUPLICATE

----------------------------------------------------------------------------
(* Serialization: C3, C4 (under SpecStyle), C7 (under SpecCluster) *)

\* The attribute keys a caller uses.
AttrKeys == {"label", "color", "shape"}

\* The value the last pair for key gives, in a list of pairs that Defines key.
PairValue(pairs, key) ==
    pairs[CHOOSE i \in 1..Len(pairs) :
             /\ pairs[i][1] = key
             /\ \A j \in (i + 1)..Len(pairs) : pairs[j][1] # key][2]

\* The named style of a record, <<>> when it has none.
NamedPairs(rec) == IF rec.style # NoStyle THEN styles[rec.style] ELSE <<>>

\* The value of key for a record by precedence: explicit, then named style, then
\* the given default pairs; <<>> when no layer defines the key.
ByPrecedence(rec, key, defaults) ==
    IF key \in DOMAIN rec.properties THEN <<rec.properties[key]>>
    ELSE IF Defines(NamedPairs(rec), key) THEN <<PairValue(NamedPairs(rec), key)>>
    ELSE IF Defines(defaults, key) THEN <<PairValue(defaults, key)>>
    ELSE <<>>

\* The value a written statement carries for key, <<>> when it does not carry it.
Emitted(attrs, key) == IF key \in DOMAIN attrs THEN <<attrs[key]>> ELSE <<>>

\* C3 as stated: when dot() succeeds, every node's statement carries, for every
\* key, the explicit property, else the named style's value, else the default
\* style's value, and no value when no layer defines the key.
C3_AsStated ==
    (call.op = "dot" /\ call.out.error = "") =>
        \A i \in NodeRefs :
            \E k \in 1..Len(call.out.stmts) :
                /\ call.out.stmts[k].kind \in {"node", "attrs"}
                /\ call.out.stmts[k].id = nodes[i].id
                /\ \A key \in AttrKeys :
                      Emitted(call.out.stmts[k].attrs, key)
                          = ByPrecedence(nodes[i], key, default_style)

\* The stored links in the order dot() writes them: by source node, then by
\* position in storage.
RECURSIVE EdgeOrder(_)
EdgeOrder(n) ==
    IF n = 0 THEN <<>>
    ELSE EdgeOrder(n - 1)
         \o SelectSeq([i \in 1..Len(links) |-> i], LAMBDA i : links[i].from_node = n)

Kids(n) == {i \in NodeRefs : nodes[i].parent = n}

\* The id an edge is drawn at for endpoint n with override cl.
Anchor(n, cl) ==
    IF Kids(n) = {} THEN nodes[n].id
    ELSE IF cl # NoNode THEN nodes[cl].id
    ELSE nodes[Min(Kids(n))].id

\* The cluster attribute of an edge for endpoint n.
ClusterAttr(n) == IF Kids(n) = {} THEN <<>> ELSE <<nodes[n].id>>

\* C7: every stored link is written from the override's id if its source has
\* children and the override is set, from the id of the first child if it has
\* children and no override, from the source's own id if it is a leaf, with
\* ltail=cluster<id of source> exactly when the source has children; and the same
\* for the target, its override and lhead.
C7_ClusterEdges ==
    call.op = "dot" =>
        /\ Len(call.out.edges) = Len(links)
        /\ \A k \in 1..Len(call.out.edges) :
              LET l == links[EdgeOrder(Len(nodes))[k]]
                  e == call.out.edges[k]
              IN  /\ e.src = Anchor(l.from_node, l.cl_from_node)
                  /\ e.ltail = ClusterAttr(l.from_node)
                  /\ e.dst = Anchor(l.to_node, l.cl_to_node)
                  /\ e.lhead = ClusterAttr(l.to_node)

\* dot() has written a link from a cluster with two children to a leaf, with no
\* override, from the first child and with ltail alone.
C7_Witness ==
    /\ call.op = "dot"
    /\ \E k \in 1..Len(call.out.edges) :
          LET l == links[EdgeOrder(Len(nodes))[k]]
              e == call.out.edges[k]
          IN  /\ Cardinality(Kids(l.from_node)) = 2 /\ Kids(l.to_node) = {}
              /\ l.to_node \notin Kids(l.from_node)
              /\ l.cl_from_node = NoNode /\ l.cl_to_node = NoNode
              /\ e.src = nodes[Min(Kids(l.from_node))].id
              /\ e.dst = nodes[l.to_node].id
              /\ e.ltail = <<nodes[l.from_node].id>> /\ e.lhead = <<>>

----------------------------------------------------------------------------
(* Coalescing: C11 (under SpecCoalesce) *)

\* The links of ls that join a and b, in either direction.
JoiningIn(ls, a, b) ==
    {i \in 1..Len(ls) :
        \/ ls[i].from_node = a /\ ls[i].to_node = b
        \/ ls[i].from_node = b /\ ls[i].to_node = a}

\* C11 as stated: with smart mode enabled from the start, after every newLink(A, B)
\* (A = B included) exactly one stored link joins A and B, and no step changes the
\* number of stored links joining any other pair; so once A and B were linked,
\* exactly one link joins them in every later state.
C11_AsStated ==
    [][/\ call'.op # "newLink" => links' = links
       /\ call'.op = "newLink" =>
             /\ Cardinality(JoiningIn(links', call'.src, call'.dst)) = 1
             /\ \A a \in NodeRefs, b \in NodeRefs :
                   {a, b} # {call'.src, call'.dst} =>
                       Cardinality(JoiningIn(links', a, b))
                           = Cardinality(JoiningIn(links, a, b))]_vars

====
